---- MODULE Spec2Model ----
(***************************************************************************)
(* Pharmacy inventory-and-sales engine: src/app.py (web engine, one        *)
(* PharmacyInventorySystem shared by all request threads) and src/main.py  *)
(* (CLI engine).  The three tables are sequences indexed by their INTEGER  *)
(* PRIMARY KEY (rows are never deleted, so the key of a row is its index). *)
(***************************************************************************)
EXTENDS Integers, Sequences, FiniteSets, TLC

(* ------------------------------ bounds -------------------------------- *)
MaxLots == 2
MaxSales == 2
MaxQty == 2

(* Arguments the callers pass (int(...) of a form field or of input()).    *)
QuantityArgs == {-1, MaxQty}
SellQuantityArgs == -1 .. (MaxQty + 1)
LotIdArgs == 1 .. (MaxLots + 1)
(* The medicine and prices of a new lot: medicine 1 is in the catalog,    *)
(* medicine 3 is not.                                                      *)
LotArgs == {[medicine_id |-> 1, purchase_price |-> 2, selling_price |-> 5],
            [medicine_id |-> 3, purchase_price |-> 2, selling_price |-> 3]}
PurchasePriceArgs == {2}
SellingPriceArgs == {3, 5}
(* An expiry-date string: well formed for '%Y-%m-%d' (then day is its day  *)
(* number) or not.                                                         *)
DateStrings == {[wellformed |-> TRUE, day |-> 400], [wellformed |-> FALSE, day |-> 0]}
(* medicines.json: the sequence of names of its records.                   *)
JsonFiles == {<<"A", "B">>}
Engines == {"web", "cli"}
(* The days the calls are made on.  Day 1 is the 1st of a 31-day month, so *)
(* day 32 is the 1st of the next month.                                    *)
ClockDays == {24, 31, 32}
Threads == {"t1", "t2"}

VARIABLES
    today,       \* CURRENT_DATE / date('now'), as a day number
    engine,      \* which program runs: "web" (app.py) or "cli" (main.py)
    medicines,   \* table medicines, as the connection sees it
    inventory,   \* table inventory, as the connection sees it
    sales,       \* table sales, as the connection sees it
    disk,        \* the committed inventory and sales tables
    created,     \* history: the quantity each lot was inserted with
    cursor,      \* self.cursor: the rows its last execute left to fetch
    lastrowid,   \* self.cursor.lastrowid
    last,        \* the most recent completed call and what it returned
    pc,          \* per request thread: where it is in its handler
    req,         \* per request thread: the arguments of its call
    loc          \* per request thread: local variables and return value

vars == <<today, engine, medicines, inventory, sales, disk, created, cursor, lastrowid, last,
          pc, req, loc>>
threadVars == <<pc, req, loc>>

(* ------------------------------ SQL ----------------------------------- *)
(* SELECT quantity FROM inventory WHERE id = ?                             *)
SelectQuantity(inv, id) ==
    IF id \in DOMAIN inv THEN <<inv[id].quantity>> ELSE <<>>

(* SELECT selling_price FROM inventory WHERE id = ?                        *)
SelectSellingPrice(inv, id) ==
    IF id \in DOMAIN inv THEN <<inv[id].selling_price>> ELSE <<>>

(* The INSERT turned into a restock of the first lot of the same medicine. *)
InsertInventoryMerge(inv, medicine_id, quantity, expiry, purchase_price, selling_price) ==
    IF \E l \in DOMAIN inv : inv[l].medicine_id = medicine_id
    THEN LET l == CHOOSE l \in DOMAIN inv : inv[l].medicine_id = medicine_id
         IN [inv EXCEPT ![l].quantity = @ + quantity]
    ELSE Append(inv, [medicine_id |-> medicine_id, quantity |-> quantity,
                      expiry_date |-> expiry, purchase_price |-> purchase_price,
                      selling_price |-> selling_price])

(* INSERT INTO inventory (...) VALUES (...): no foreign-key enforcement is *)
(* switched on, so the row is inserted whatever medicine_id is.            *)
InsertInventory(inv, medicine_id, quantity, expiry, purchase_price, selling_price) ==
    Append(inv, [medicine_id |-> medicine_id, quantity |-> quantity,
                 expiry_date |-> expiry, purchase_price |-> purchase_price,
                 selling_price |-> selling_price])

(* INSERT INTO sales (...) of app.py, with total_amount; sale_date takes   *)
(* its default, CURRENT_DATE.                                              *)
InsertSale(sl, inventory_id, quantity, sale_price, total_amount) ==
    Append(sl, [inventory_id |-> inventory_id, quantity |-> quantity,
                sale_price |-> sale_price, total_amount |-> total_amount,
                sale_date |-> today])

(* INSERT INTO sales (...) of main.py: its table has no total_amount.      *)
MainInsertSale(sl, inventory_id, quantity, sale_price) ==
    Append(sl, [inventory_id |-> inventory_id, quantity |-> quantity,
                sale_price |-> sale_price, sale_date |-> today])

(* The UPDATE with the decrement applied twice.                            *)
UpdateQuantityTwice(inv, quantity, id) ==
    IF id \in DOMAIN inv
    THEN [inv EXCEPT ![id].quantity = @ - quantity - quantity]
    ELSE inv

(* UPDATE inventory SET quantity = quantity - ? WHERE id = ?               *)
UpdateQuantity(inv, quantity, id) ==
    IF id \in DOMAIN inv
    THEN [inv EXCEPT ![id].quantity = @ - quantity]
    ELSE inv

(* The stock check with <= for <, and the stock check off by one.         *)
NotEnoughStockNonStrict(available, quantity) == available <= quantity
NotEnoughStockOffByOne(available, quantity) == available + 1 < quantity

(* if available < quantity: return False, "Not enough stock"               *)
NotEnoughStock(available, quantity) == available < quantity

(* total_amount = quantity * selling_price                                 *)
TotalAmount(quantity, selling_price) == quantity * selling_price

(* INSERT OR IGNORE INTO medicines, once per record of the file.           *)
RECURSIVE InsertMedicines(_, _)
InsertMedicines(meds, names) ==
    IF names = <<>> THEN meds
    ELSE InsertMedicines(Append(meds, [name |-> Head(names)]), Tail(names))

(* app.py loads only into an empty table; main.py loads on every start.    *)
load_medicine_data(eng, meds, names) ==
    IF eng = "web" /\ Len(meds) # 0 THEN meds ELSE InsertMedicines(meds, names)

Idle == [t \in Threads |-> "idle"]
NoReq == [t \in Threads |-> [op |-> "none"]]
NoLoc == [t \in Threads |-> [ret |-> "none"]]

(* ------------------------------ Init ---------------------------------- *)
(* __init__: connect, create_tables, load_medicine_data on a new database. *)
TablesInit(files) ==
    /\ today = 24
    /\ engine \in Engines
    /\ \E f \in files : medicines = load_medicine_data(engine, <<>>, f)
    /\ inventory = <<>>
    /\ sales = <<>>
    /\ disk = [inventory |-> <<>>, sales |-> <<>>]
    /\ created = <<>>
    /\ cursor = <<>>
    /\ lastrowid = 0
    /\ last = [op |-> "init"]

InitTables == TablesInit(JsonFiles)

Init ==
    /\ InitTables
    /\ pc = Idle
    /\ req = NoReq
    /\ loc = NoLoc

(* ------------------- whole calls, one at a time ----------------------- *)
(* add_to_inventory (the same code in app.py and main.py).                 *)
add_to_inventory(medicine_id, quantity, expiry_date, purchase_price, selling_price) ==
    /\ Len(inventory) < MaxLots
    /\ IF ~expiry_date.wellformed
       THEN \* datetime.strptime raises ValueError before any statement
            /\ last' = [op |-> "add_to_inventory", medicine_id |-> medicine_id,
                        quantity |-> quantity, outcome |-> "raise",
                        error |-> "ValueError"]
            /\ UNCHANGED <<inventory, disk, created, cursor, lastrowid>>
       ELSE LET inv == InsertInventory(inventory, medicine_id, quantity,
                                       expiry_date.day, purchase_price, selling_price)
            IN /\ inventory' = inv
               /\ disk' = [inventory |-> inv, sales |-> sales]
               /\ created' = Append(created, quantity)
               /\ cursor' = <<>>
               /\ lastrowid' = Len(inv)
               /\ last' = [op |-> "add_to_inventory", medicine_id |-> medicine_id,
                           quantity |-> quantity, outcome |-> "return",
                           lotid |-> Len(inv)]
    /\ UNCHANGED <<today, engine, medicines, sales, threadVars>>

(* sell_medicine of app.py.                                                *)
app_sell_medicine(inventory_id, quantity) ==
    /\ engine = "web"
    /\ Len(sales) < MaxSales
    /\ LET result == SelectQuantity(inventory, inventory_id)
           call == [op |-> "sell_medicine", inventory_id |-> inventory_id,
                    quantity |-> quantity, outcome |-> "return"]
       IN IF result = <<>>
          THEN /\ last' = call @@ [ok |-> FALSE, msg |-> "Inventory item not found"]
               /\ cursor' = <<>>
               /\ UNCHANGED <<inventory, sales, disk, lastrowid>>
          ELSE IF NotEnoughStock(Head(result), quantity)
          THEN /\ last' = call @@ [ok |-> FALSE, msg |-> "Not enough stock"]
               /\ cursor' = <<>>
               /\ UNCHANGED <<inventory, sales, disk, lastrowid>>
          ELSE LET selling_price == Head(SelectSellingPrice(inventory, inventory_id))
                   total_amount == TotalAmount(quantity, selling_price)
                   sl == InsertSale(sales, inventory_id, quantity, selling_price,
                                    total_amount)
                   inv == UpdateQuantity(inventory, quantity, inventory_id)
               IN /\ sales' = sl
                  /\ inventory' = inv
                  /\ disk' = [inventory |-> inv, sales |-> sl]
                  /\ cursor' = <<>>
                  /\ lastrowid' = Len(sl)
                  /\ last' = call @@ [ok |-> TRUE, msg |-> "Sold", total |-> total_amount]
    /\ UNCHANGED <<today, engine, medicines, created, threadVars>>

(* sell_medicine of main.py: fetchone()[0] with no check for a missing row *)
main_sell_medicine(inventory_id, quantity) ==
    /\ engine = "cli"
    /\ Len(sales) < MaxSales
    /\ LET result == SelectQuantity(inventory, inventory_id)
           call == [op |-> "sell_medicine", inventory_id |-> inventory_id,
                    quantity |-> quantity]
       IN IF result = <<>>
          THEN \* None[0]: TypeError
               /\ last' = call @@ [outcome |-> "raise", error |-> "TypeError"]
               /\ cursor' = <<>>
               /\ UNCHANGED <<inventory, sales, disk, lastrowid>>
          ELSE IF NotEnoughStock(Head(result), quantity)
          THEN /\ last' = call @@ [outcome |-> "return", ok |-> FALSE,
                                   msg |-> "Not enough stock"]
               /\ cursor' = <<>>
               /\ UNCHANGED <<inventory, sales, disk, lastrowid>>
          ELSE LET selling_price == Head(SelectSellingPrice(inventory, inventory_id))
                   sl == MainInsertSale(sales, inventory_id, quantity, selling_price)
                   inv == UpdateQuantity(inventory, quantity, inventory_id)
               IN /\ sales' = sl
                  /\ inventory' = inv
                  /\ disk' = [inventory |-> inv, sales |-> sl]
                  /\ cursor' = <<>>
                  /\ lastrowid' = Len(sl)
                  /\ last' = call @@ [outcome |-> "return", ok |-> TRUE, msg |-> "Sold",
                                      total |-> TotalAmount(quantity, selling_price)]
    /\ UNCHANGED <<today, engine, medicines, created, threadVars>>

AddStep ==
    \E a \in LotArgs, q \in QuantityArgs, e \in DateStrings :
        add_to_inventory(a.medicine_id, q, e, a.purchase_price, a.selling_price)

AppSellStep == \E id \in LotIdArgs, q \in SellQuantityArgs : app_sell_medicine(id, q)

MainSellStep == \E id \in LotIdArgs, q \in SellQuantityArgs : main_sell_medicine(id, q)

Next == AddStep \/ AppSellStep \/ MainSellStep

Spec == Init /\ [][Next]_vars

(* ------------------------------ queries ------------------------------- *)
NearExpiryDays == 30
DefaultThreshold == 10
WeekDays == 7

(* JOIN medicines m ON i.medicine_id = m.id: an inner join, so a lot whose *)
(* medicine_id is no row of medicines yields no row.                       *)
Joined(inv, meds, lot) == lot \in DOMAIN inv /\ inv[lot].medicine_id \in DOMAIN meds

(* The ids of S as a sequence ordered by key[id] (a pair of integers,      *)
(* compared lexicographically): ORDER BY, with ties broken by the second   *)
(* component.                                                              *)
KeyBefore(a, b) == a[1] < b[1] \/ (a[1] = b[1] /\ a[2] <= b[2])

RECURSIVE OrderBy(_, _)
OrderBy(S, key) ==
    IF S = {} THEN <<>>
    ELSE LET first == CHOOSE x \in S : \A y \in S : KeyBefore(key[x], key[y])
         IN <<first>> \o OrderBy(S \ {first}, key)

(* WHERE i.quantity > 0 with >= for >.                                     *)
ActiveWithZero(quantity) == quantity >= 0

(* WHERE i.quantity > 0                                                    *)
Active(quantity) == quantity > 0

(* The CASE with <= for < in the expiry test.                              *)
StatusNonStrict(quantity, expiry_date, threshold, now) ==
    IF quantity <= threshold THEN "LOW"
    ELSE IF expiry_date <= now + NearExpiryDays THEN "NEAR_EXPIRY"
    ELSE "OK"

(* CASE WHEN i.quantity <= ? THEN 'LOW'                                    *)
(*      WHEN date(i.expiry_date) < date('now', '+30 days') THEN            *)
(*      'NEAR_EXPIRY' ELSE 'OK' END                                        *)
Status(quantity, expiry_date, threshold, now) ==
    IF quantity <= threshold THEN "LOW"
    ELSE IF expiry_date < now + NearExpiryDays THEN "NEAR_EXPIRY"
    ELSE "OK"

(* The rows of get_inventory: app.py orders them by expiry_date, main.py   *)
(* has no ORDER BY (rows in table order).                                  *)
InventoryRows(eng, inv, meds, threshold, now) ==
    LET ids == {l \in DOMAIN inv : Joined(inv, meds, l) /\ Active(inv[l].quantity)}
        key == [l \in ids |-> IF eng = "web" THEN <<inv[l].expiry_date, l>> ELSE <<0, l>>]
        ord == OrderBy(ids, key)
    IN [i \in 1 .. Len(ord) |->
           [id |-> ord[i], name |-> meds[inv[ord[i]].medicine_id].name,
            quantity |-> inv[ord[i]].quantity,
            expiry_date |-> inv[ord[i]].expiry_date,
            purchase_price |-> inv[ord[i]].purchase_price,
            selling_price |-> inv[ord[i]].selling_price,
            status |-> Status(inv[ord[i]].quantity, inv[ord[i]].expiry_date,
                              threshold, now)]]

(* date(i.expiry_date) BETWEEN date('now') AND date('now', '+N days')      *)
InWindow(expiry_date, now, days) == now <= expiry_date /\ expiry_date <= now + days

(* The rows of get_expiring_medicines, ordered by expiry_date.  There is   *)
(* no condition on quantity.  days_remaining (app.py only) is the          *)
(* truncated difference of julianday(expiry) and julianday('now'), 'now'   *)
(* being some time after midnight of today.                                *)
ExpiringRows(eng, inv, meds, days, now) ==
    LET ids == {l \in DOMAIN inv :
                   Joined(inv, meds, l) /\ InWindow(inv[l].expiry_date, now, days)}
        key == [l \in ids |-> <<inv[l].expiry_date, l>>]
        ord == OrderBy(ids, key)
    IN [i \in 1 .. Len(ord) |->
           LET lot == inv[ord[i]]
               row == [id |-> ord[i], name |-> meds[lot.medicine_id].name,
                       quantity |-> lot.quantity, expiry_date |-> lot.expiry_date]
           IN IF eng = "web"
              THEN row @@ [days_remaining |->
                              IF lot.expiry_date > now THEN lot.expiry_date - now - 1
                              ELSE 0]
              ELSE row]

(* date('now', 'start of month'), for the days of ClockDays.               *)
StartOfMonth(now) == IF now <= 31 THEN 1 ELSE 32

Periods == {"daily", "weekly", "monthly"}

(* The else branch of get_sales_report taken as 'daily'.                   *)
DateFilterDefaultDaily(period, now) ==
    IF period = "weekly" THEN <<now - WeekDays>>
    ELSE IF period = "monthly" THEN <<StartOfMonth(now)>>
    ELSE <<now>>

(* date_filter of get_sales_report: <<boundary>>, or <<>> for the else     *)
(* branch, which returns [].                                               *)
DateFilter(period, now) ==
    IF period = "daily" THEN <<now>>
    ELSE IF period = "weekly" THEN <<now - WeekDays>>
    ELSE IF period = "monthly" THEN <<StartOfMonth(now)>>
    ELSE <<>>

(* The sales the report's SELECT ranges over: sale_date >= boundary, and   *)
(* the two inner joins.                                                    *)
ReportSales(sl, inv, meds, boundary) ==
    {i \in DOMAIN sl : /\ sl[i].sale_date >= boundary
                       /\ Joined(inv, meds, sl[i].inventory_id)}

(* The profit computed from the unit price alone.                          *)
ProfitWithoutCost(sale, inv) == sale.quantity * sale.sale_price

(* s.quantity * (s.sale_price - i.purchase_price) AS profit                *)
Profit(sale, inv) ==
    sale.quantity * (sale.sale_price - inv[sale.inventory_id].purchase_price)

RECURSIVE SumOver(_, _)
SumOver(S, f) ==
    IF S = {} THEN 0
    ELSE LET x == CHOOSE x \in S : TRUE IN f[x] + SumOver(S \ {x}, f)

(* app.py: one row per sale, ORDER BY sale_date DESC, sale_time DESC (a    *)
(* later sale of the same day has the later sale_time).                    *)
AppReportRows(sl, inv, meds, boundary) ==
    LET ids == ReportSales(sl, inv, meds, boundary)
        key == [i \in ids |-> <<0 - sl[i].sale_date, 0 - i>>]
        ord == OrderBy(ids, key)
    IN [k \in 1 .. Len(ord) |->
           LET sale == sl[ord[k]]
           IN [sale_date |-> sale.sale_date,
               name |-> meds[inv[sale.inventory_id].medicine_id].name,
               quantity |-> sale.quantity,
               total_amount |-> sale.total_amount,
               profit |-> Profit(sale, inv)]]

(* main.py: GROUP BY s.sale_date, m.name with SUMs, ORDER BY sale_date     *)
(* DESC.  A group is named by its first sale.                              *)
MainReportRows(sl, inv, meds, boundary) ==
    LET ids == ReportSales(sl, inv, meds, boundary)
        name(i) == meds[inv[sl[i].inventory_id].medicine_id].name
        group(i) == {j \in ids : sl[j].sale_date = sl[i].sale_date /\ name(j) = name(i)}
        firsts == {i \in ids : \A j \in group(i) : i <= j}
        key == [i \in firsts |-> <<0 - sl[i].sale_date, i>>]
        ord == OrderBy(firsts, key)
    IN [k \in 1 .. Len(ord) |->
           LET g == group(ord[k])
           IN [sale_date |-> sl[ord[k]].sale_date,
               name |-> name(ord[k]),
               quantity |-> SumOver(g, [j \in g |-> sl[j].quantity]),
               total_amount |-> SumOver(g, [j \in g |-> sl[j].quantity * sl[j].sale_price]),
               profit |-> SumOver(g, [j \in g |-> Profit(sl[j], inv)])]]

SalesReportRows(eng, sl, inv, meds, period, now) ==
    LET filter == DateFilter(period, now)
    IN IF filter = <<>> THEN <<>>
       ELSE IF eng = "web" THEN AppReportRows(sl, inv, meds, Head(filter))
       ELSE MainReportRows(sl, inv, meds, Head(filter))

(* get_inventory: a SELECT and fetchall                                    *)
get_inventory(low_stock_threshold) ==
    /\ last' = [op |-> "get_inventory", threshold |-> low_stock_threshold,
                day |-> today,
                rows |-> InventoryRows(engine, inventory, medicines,
                                       low_stock_threshold, today)]
    /\ cursor' = <<>>
    /\ UNCHANGED <<today, engine, medicines, inventory, sales, disk, created, lastrowid,
                   threadVars>>

(* get_expiring_medicines: a SELECT and fetchall                           *)
get_expiring_medicines(days) ==
    /\ last' = [op |-> "get_expiring_medicines", days |-> days, day |-> today,
                rows |-> ExpiringRows(engine, inventory, medicines, days, today)]
    /\ cursor' = <<>>
    /\ UNCHANGED <<today, engine, medicines, inventory, sales, disk, created, lastrowid,
                   threadVars>>

(* get_sales_report: return [] for an unknown period, else a SELECT and    *)
(* fetchall                                                                *)
get_sales_report(period) ==
    /\ last' = [op |-> "get_sales_report", period |-> period, day |-> today,
                rows |-> SalesReportRows(engine, sales, inventory, medicines,
                                         period, today)]
    /\ cursor' = <<>>
    /\ UNCHANGED <<today, engine, medicines, inventory, sales, disk, created, lastrowid,
                   threadVars>>

(* Days pass between two calls.                                            *)
Tick(d) ==
    /\ today + d \in ClockDays
    /\ today' = today + d
    /\ UNCHANGED <<engine, medicines, inventory, sales, disk, created, cursor, lastrowid,
                   last, threadVars>>

ThresholdArgs == {1, DefaultThreshold}
DaysArgs == {NearExpiryDays}
PeriodArgs == Periods \cup {"bogus"}
TickArgs == {7, 8}
QueryQuantityArgs == {MaxQty}
QuerySellQuantityArgs == {MaxQty - 1, MaxQty}
(* New lots: medicine 1 expiring on day 31 or 62, which on the clock days  *)
(* 31 and 32 are today, yesterday, in 30 days and in 31 days; and the      *)
(* unknown medicine 3 (its lots join no medicine row).                     *)
QueryLotArgs ==
    {[medicine_id |-> 1, purchase_price |-> 2, selling_price |-> 5,
      expiry_date |-> [wellformed |-> TRUE, day |-> 31]],
     [medicine_id |-> 1, purchase_price |-> 2, selling_price |-> 5,
      expiry_date |-> [wellformed |-> TRUE, day |-> 62]],
     [medicine_id |-> 3, purchase_price |-> 2, selling_price |-> 3,
      expiry_date |-> [wellformed |-> TRUE, day |-> 61]]}

QueryAddStep ==
    \E a \in QueryLotArgs, q \in QueryQuantityArgs :
        add_to_inventory(a.medicine_id, q, a.expiry_date, a.purchase_price,
                         a.selling_price)

QueryAppSellStep ==
    \E id \in 1 .. MaxLots, q \in QuerySellQuantityArgs : app_sell_medicine(id, q)

QueryMainSellStep ==
    \E id \in 1 .. MaxLots, q \in QuerySellQuantityArgs : main_sell_medicine(id, q)

InventoryStep == \E th \in ThresholdArgs : get_inventory(th)

ExpiringStep == \E d \in DaysArgs : get_expiring_medicines(d)

ReportStep == \E p \in PeriodArgs : get_sales_report(p)

TickStep == \E d \in TickArgs : Tick(d)

NextQueries ==
    \/ QueryAddStep
    \/ QueryAppSellStep
    \/ QueryMainSellStep
    \/ InventoryStep
    \/ ExpiringStep
    \/ ReportStep
    \/ TickStep

SpecQueries == Init /\ [][NextQueries]_vars

(* ----------------------- the catalog at start-up ----------------------- *)
(* medicines.json files with repeated names.                               *)
CatalogFiles == {<<>>, <<"A">>, <<"A", "B">>, <<"A", "A">>, <<"A", "B", "A">>}

InitCatalog ==
    /\ TablesInit(CatalogFiles)
    /\ pc = Idle
    /\ req = NoReq
    /\ loc = NoLoc

SpecCatalog == InitCatalog /\ [][Next]_vars

(* ------------------- starting the program again ----------------------- *)
(* The most medicine rows a run holds.                                     *)
MaxMedicines == 4

(* PharmacyInventorySystem(): a new connection and cursor on the database  *)
(* file the earlier run committed to, CREATE TABLE IF NOT EXISTS, then     *)
(* load_medicine_data of the medicines.json found at that start.           *)
PharmacyInventorySystem(json_file) ==
    /\ Len(load_medicine_data(engine, medicines, json_file)) <= MaxMedicines
    /\ medicines' = load_medicine_data(engine, medicines, json_file)
    /\ cursor' = <<>>
    /\ lastrowid' = 0
    /\ last' = [op |-> "PharmacyInventorySystem", json_file |-> json_file]
    /\ UNCHANGED <<today, engine, inventory, sales, disk, created, threadVars>>

RestartStep == \E f \in CatalogFiles : PharmacyInventorySystem(f)

NextRestart == Next \/ RestartStep

SpecRestart == InitCatalog /\ [][NextRestart]_vars

(* ------------------------ the reference scenario ------------------------ *)
ScenarioQuantityArgs == {100}
ScenarioSellQuantityArgs == {30, 80}
ScenarioLotArgs == {[medicine_id |-> 1, purchase_price |-> 2, selling_price |-> 5]}
ScenarioDateStrings == {[wellformed |-> TRUE, day |-> 400]}

ScenarioAddStep ==
    \E a \in ScenarioLotArgs, q \in ScenarioQuantityArgs, e \in ScenarioDateStrings :
        add_to_inventory(a.medicine_id, q, e, a.purchase_price, a.selling_price)

ScenarioAppSellStep ==
    \E id \in LotIdArgs, q \in ScenarioSellQuantityArgs : app_sell_medicine(id, q)

ScenarioMainSellStep ==
    \E id \in LotIdArgs, q \in ScenarioSellQuantityArgs : main_sell_medicine(id, q)

NextScenario ==
    \/ ScenarioAddStep
    \/ ScenarioAppSellStep
    \/ ScenarioMainSellStep
    \/ ReportStep

SpecScenario == Init /\ [][NextScenario]_vars

(* --------------- request threads of the web engine -------------------- *)
(* The threads share pharmacy.conn and pharmacy.cursor; nothing in app.py  *)
(* locks them, so a thread may be preempted between any two statements.    *)
ThreadQuantityArgs == {MaxQty}
ThreadSellQuantityArgs == 1 .. MaxQty
ThreadMedicineIdArgs == {1}

(* cursor.fetchone(): the next row of whatever result the shared cursor    *)
(* holds (<<>> stands for None), and what is left in the cursor.           *)
FetchoneRow(cur) == IF cur = <<>> THEN <<>> ELSE <<Head(cur)>>
FetchoneRest(cur) == IF cur = <<>> THEN <<>> ELSE Tail(cur)

Return(t, value) ==
    /\ pc' = [pc EXCEPT ![t] = "idle"]
    /\ req' = [req EXCEPT ![t] = [op |-> "none"]]
    /\ loc' = [loc EXCEPT ![t] = [ret |-> value]]

Goto(t, label) == pc' = [pc EXCEPT ![t] = label]

SellCall(t) == [op |-> "sell_medicine"]

(* Calls in flight that will still insert a row.                           *)
SalesInFlight ==
    Cardinality({t \in Threads : pc[t] \in {"sell_select_quantity", "sell_fetch_quantity",
                                            "sell_select_price", "sell_fetch_price",
                                            "sell_insert"}})
LotsInFlight == Cardinality({t \in Threads : pc[t] = "add_insert"})

(* route sell: int(request.form[...]) and the call of sell_medicine        *)
sell(t, inventory_id, quantity) ==
    /\ pc[t] = "idle"
    /\ Len(sales) + SalesInFlight < MaxSales
    /\ Goto(t, "sell_select_quantity")
    /\ req' = [req EXCEPT ![t] = [op |-> "sell_medicine",
                                  inventory_id |-> inventory_id,
                                  quantity |-> quantity]]
    /\ loc' = [loc EXCEPT ![t] = [ret |-> "none"]]
    /\ UNCHANGED <<today, engine, medicines, inventory, sales, disk, created, cursor,
                   lastrowid, last>>

(* self.cursor.execute('SELECT quantity FROM inventory WHERE id = ?')      *)
sell_select_quantity(t) ==
    /\ pc[t] = "sell_select_quantity"
    /\ cursor' = SelectQuantity(inventory, req[t].inventory_id)
    /\ Goto(t, "sell_fetch_quantity")
    \* executed: the result this call's own execute produced
    /\ loc' = [loc EXCEPT ![t] = [ret |-> "none", executed |-> cursor']]
    /\ UNCHANGED <<today, engine, medicines, inventory, sales, disk, created, lastrowid,
                   last, req>>

(* result = self.cursor.fetchone() and the two checks on it                *)
sell_fetch_quantity(t) ==
    /\ pc[t] = "sell_fetch_quantity"
    /\ cursor' = FetchoneRest(cursor)
    /\ LET result == FetchoneRow(cursor)
       IN IF result = <<>>
          THEN Return(t, SellCall(t) @@ [outcome |-> "return", ok |-> FALSE,
                                         msg |-> "Inventory item not found"])
          ELSE IF NotEnoughStock(Head(result), req[t].quantity)
          THEN Return(t, SellCall(t) @@ [outcome |-> "return", ok |-> FALSE,
                                         msg |-> "Not enough stock"])
          ELSE /\ Goto(t, "sell_select_price")
               /\ loc' = [loc EXCEPT ![t] = [ret |-> "none", available |-> Head(result)]]
               /\ UNCHANGED req
    /\ UNCHANGED <<today, engine, medicines, inventory, sales, disk, created, lastrowid, last>>

(* self.cursor.execute('SELECT selling_price FROM inventory WHERE id = ?') *)
sell_select_price(t) ==
    /\ pc[t] = "sell_select_price"
    /\ cursor' = SelectSellingPrice(inventory, req[t].inventory_id)
    /\ Goto(t, "sell_fetch_price")
    /\ loc' = [loc EXCEPT ![t] = [ret |-> "none", available |-> loc[t].available,
                                  executed |-> cursor']]
    /\ UNCHANGED <<today, engine, medicines, inventory, sales, disk, created, lastrowid,
                   last, req>>

(* selling_price = self.cursor.fetchone()[0]; total_amount = ...           *)
sell_fetch_price(t) ==
    /\ pc[t] = "sell_fetch_price"
    /\ cursor' = FetchoneRest(cursor)
    /\ LET row == FetchoneRow(cursor)
       IN IF row = <<>>
          THEN \* None[0]: TypeError, caught by the route's except
               Return(t, SellCall(t) @@ [outcome |-> "raise", error |-> "TypeError"])
          ELSE /\ Goto(t, "sell_insert")
               /\ loc' = [loc EXCEPT ![t] =
                             [ret |-> "none", available |-> loc[t].available,
                              selling_price |-> Head(row),
                              total_amount |-> TotalAmount(req[t].quantity, Head(row))]]
               /\ UNCHANGED req
    /\ UNCHANGED <<today, engine, medicines, inventory, sales, disk, created, lastrowid, last>>

(* self.cursor.execute('INSERT INTO sales ...'): opens the connection's    *)
(* transaction if none is open                                             *)
sell_insert(t) ==
    /\ pc[t] = "sell_insert"
    /\ sales' = InsertSale(sales, req[t].inventory_id, req[t].quantity,
                           loc[t].selling_price, loc[t].total_amount)
    /\ lastrowid' = Len(sales')
    /\ cursor' = <<>>
    /\ Goto(t, "sell_update")
    /\ UNCHANGED <<today, engine, medicines, inventory, disk, created, last, req, loc>>

(* self.cursor.execute('UPDATE inventory SET quantity = quantity - ? ...') *)
sell_update(t) ==
    /\ pc[t] = "sell_update"
    /\ inventory' = UpdateQuantity(inventory, req[t].quantity, req[t].inventory_id)
    /\ cursor' = <<>>
    /\ Goto(t, "sell_commit")
    /\ UNCHANGED <<today, engine, medicines, sales, disk, created, lastrowid, last, req, loc>>

(* self.conn.commit(): everything the connection has written so far, by    *)
(* whichever thread, becomes durable; then return True, ...                *)
sell_commit(t) ==
    /\ pc[t] = "sell_commit"
    /\ disk' = [inventory |-> inventory, sales |-> sales]
    /\ Return(t, SellCall(t) @@ [outcome |-> "return", ok |-> TRUE, msg |-> "Sold"])
    /\ UNCHANGED <<today, engine, medicines, inventory, sales, created, cursor, lastrowid, last>>

(* route add_inventory: the call of add_to_inventory and its strptime      *)
add_inventory(t, medicine_id, quantity, expiry_date, purchase_price, selling_price) ==
    /\ pc[t] = "idle"
    /\ Len(inventory) + LotsInFlight < MaxLots
    /\ IF ~expiry_date.wellformed
       THEN Return(t, [op |-> "add_to_inventory", outcome |-> "raise",
                       error |-> "ValueError"])
       ELSE /\ Goto(t, "add_insert")
            /\ req' = [req EXCEPT ![t] =
                          [op |-> "add_to_inventory", medicine_id |-> medicine_id,
                           quantity |-> quantity, expiry_date |-> expiry_date.day,
                           purchase_price |-> purchase_price,
                           selling_price |-> selling_price]]
            /\ loc' = [loc EXCEPT ![t] = [ret |-> "none"]]
    /\ UNCHANGED <<today, engine, medicines, inventory, sales, disk, created, cursor,
                   lastrowid, last>>

(* self.cursor.execute('INSERT INTO inventory ...')                        *)
add_insert(t) ==
    /\ pc[t] = "add_insert"
    /\ inventory' = InsertInventory(inventory, req[t].medicine_id, req[t].quantity,
                                    req[t].expiry_date, req[t].purchase_price,
                                    req[t].selling_price)
    /\ created' = Append(created, req[t].quantity)
    /\ lastrowid' = Len(inventory')
    /\ cursor' = <<>>
    /\ Goto(t, "add_commit")
    /\ UNCHANGED <<today, engine, medicines, sales, disk, last, req, loc>>

(* self.conn.commit()                                                      *)
add_commit(t) ==
    /\ pc[t] = "add_commit"
    /\ disk' = [inventory |-> inventory, sales |-> sales]
    /\ Goto(t, "add_return")
    /\ UNCHANGED <<today, engine, medicines, inventory, sales, created, cursor, lastrowid,
                   last, req, loc>>

(* return self.cursor.lastrowid                                            *)
add_return(t) ==
    /\ pc[t] = "add_return"
    /\ Return(t, [op |-> "add_to_inventory", outcome |-> "return", lotid |-> lastrowid])
    /\ UNCHANGED <<today, engine, medicines, inventory, sales, disk, created, cursor,
                   lastrowid, last>>

ThreadSellCall ==
    \E t \in Threads, id \in LotIdArgs, q \in ThreadSellQuantityArgs : sell(t, id, q)

ThreadAddCall ==
    \E t \in Threads, m \in ThreadMedicineIdArgs, q \in ThreadQuantityArgs,
       e \in DateStrings, pp \in PurchasePriceArgs, sp \in SellingPriceArgs :
        add_inventory(t, m, q, e, pp, sp)

ThreadSellStep ==
    \E t \in Threads :
        \/ sell_select_quantity(t)
        \/ sell_fetch_quantity(t)
        \/ sell_select_price(t)
        \/ sell_fetch_price(t)
        \/ sell_insert(t)
        \/ sell_update(t)
        \/ sell_commit(t)

ThreadAddStep ==
    \E t \in Threads : add_insert(t) \/ add_commit(t) \/ add_return(t)

InitThreads == Init /\ engine = "web" /\ Len(medicines) = 2

NextThreads == ThreadSellCall \/ ThreadAddCall \/ ThreadSellStep \/ ThreadAddStep

SpecThreads == InitThreads /\ [][NextThreads]_vars

(* ============================ properties ============================== *)
(* Sum of the quantities of the sale records of sl that reference lot.     *)
RECURSIVE SoldFrom(_, _)
SoldFrom(sl, lot) ==
    IF sl = <<>> THEN 0
    ELSE (IF Head(sl).inventory_id = lot THEN Head(sl).quantity ELSE 0)
         + SoldFrom(Tail(sl), lot)

(* The sale row a successful sale of q from lot id appends in this engine. *)
ExpectedSale(id, q) ==
    IF engine = "web"
    THEN [inventory_id |-> id, quantity |-> q,
          sale_price |-> inventory[id].selling_price,
          total_amount |-> q * inventory[id].selling_price,
          sale_date |-> today]
    ELSE [inventory_id |-> id, quantity |-> q,
          sale_price |-> inventory[id].selling_price, sale_date |-> today]

(* The step just taken completed a sell_medicine call.                     *)
SoldStep == last'.op = "sell_medicine"

(* C1: for every lot, the quantities of its sale records plus its current  *)
(* quantity equal the quantity it was created with.                        *)
C1_StockConservation ==
    \A l \in DOMAIN inventory :
        SoldFrom(sales, l) + inventory[l].quantity = created[l]

C1_Witness ==
    \E l \in DOMAIN inventory :
        /\ Cardinality({i \in DOMAIN sales : sales[i].inventory_id = l}) >= 2
        /\ inventory[l].quantity < created[l]

(* C2: selling q with 0 < q <= Q from an existing lot returns success,     *)
(* leaves the lot at Q - q, appends exactly one sale record (lot, q,       *)
(* q * selling_price) and changes no other lot.                            *)
C2_SuccessfulSale ==
    [][(/\ SoldStep
        /\ last'.inventory_id \in DOMAIN inventory
        /\ 0 < last'.quantity
        /\ last'.quantity <= inventory[last'.inventory_id].quantity)
       => (/\ last'.outcome = "return"
           /\ last'.ok
           /\ inventory' = [inventory EXCEPT ![last'.inventory_id].quantity =
                                inventory[last'.inventory_id].quantity - last'.quantity]
           /\ sales' = Append(sales, ExpectedSale(last'.inventory_id, last'.quantity))
           /\ (engine = "web" =>
                 last'.total = last'.quantity * inventory[last'.inventory_id].selling_price))
      ]_vars

(* a sale of exactly the remaining stock has succeeded and left 0          *)
C2_Witness ==
    /\ last.op = "sell_medicine"
    /\ last.outcome = "return"
    /\ last.ok
    /\ last.quantity > 0
    /\ inventory[last.inventory_id].quantity = 0
    /\ Len(inventory) = 2

(* C3: selling q > Q from an existing lot returns (False, "Not enough      *)
(* stock") and leaves every lot and the sale history unchanged.            *)
C3_InsufficientStockNoOp ==
    [][(/\ SoldStep
        /\ last'.inventory_id \in DOMAIN inventory
        /\ last'.quantity > inventory[last'.inventory_id].quantity)
       => (/\ last'.outcome = "return"
           /\ ~last'.ok
           /\ last'.msg = "Not enough stock"
           /\ UNCHANGED <<inventory, sales, disk>>)
      ]_vars

C3_Witness ==
    /\ last.op = "sell_medicine"
    /\ last.outcome = "return"
    /\ ~last.ok
    /\ last.msg = "Not enough stock"
    /\ last.inventory_id \in DOMAIN inventory
    /\ last.quantity = inventory[last.inventory_id].quantity + 1
    /\ sales # <<>>

(* C4: two concurrent sells of one lot never both pass the stock check     *)
(* unless the lot holds enough for both: a sell that is about to decrement *)
(* still finds the quantity it validated against, and two sells of the     *)
(* same lot are never both past the read of the quantity and before their  *)
(* commit.                                                                 *)
InSale(t) == pc[t] \in {"sell_select_price", "sell_fetch_price", "sell_insert",
                        "sell_update", "sell_commit"}

C4_SellsSerialized ==
    /\ \A t \in Threads :
          pc[t] = "sell_update" /\ req[t].inventory_id \in DOMAIN inventory
              => inventory[req[t].inventory_id].quantity >= req[t].quantity
    /\ \A t1, t2 \in Threads :
          (t1 # t2 /\ InSale(t1) /\ InSale(t2)
           /\ req[t1].inventory_id = req[t2].inventory_id
           /\ req[t1].inventory_id \in DOMAIN created)
              => req[t1].quantity + req[t2].quantity <= created[req[t1].inventory_id]

(* C5: in the committed tables a sale record and its decrement are both    *)
(* present or both absent.                                                 *)
C5_SaleAtomic ==
    \A l \in DOMAIN disk.inventory :
        SoldFrom(disk.sales, l) + disk.inventory[l].quantity = created[l]

(* C6: every lot's quantity is >= 0.                                       *)
C6_NonNegativeStock == \A l \in DOMAIN inventory : inventory[l].quantity >= 0

(* C7: sell_medicine with quantity <= 0 on an existing lot fails, appends  *)
(* no sale record and leaves every lot unchanged.                          *)
C7_NonPositiveRejected ==
    [][(/\ SoldStep
        /\ last'.inventory_id \in DOMAIN inventory
        /\ last'.quantity <= 0)
       => (/\ last'.outcome = "return"
           /\ ~last'.ok
           /\ UNCHANGED <<inventory, sales>>)
      ]_vars

(* C8: sell_medicine on a lot id that does not exist returns the NotFound  *)
(* failure (it does not raise) and changes nothing, in both engines.       *)
C8_MissingLotNotFound ==
    [][(SoldStep /\ last'.inventory_id \notin DOMAIN inventory)
       => (/\ last'.outcome = "return"
           /\ ~last'.ok
           /\ last'.msg = "Inventory item not found"
           /\ UNCHANGED <<inventory, sales, disk>>)
      ]_vars

(* C9: the quantity of an existing lot never increases.                    *)
C9_QuantityNonIncreasing ==
    [][\A l \in DOMAIN inventory : inventory'[l].quantity <= inventory[l].quantity]_vars

(* C10: every lot references a medicine of the catalog.                    *)
C10_LotsReferenceCatalog ==
    \A l \in DOMAIN inventory : inventory[l].medicine_id \in DOMAIN medicines

(* The step just taken completed an add_to_inventory call.                 *)
AddedStep == last'.op = "add_to_inventory"

(* C11: add_to_inventory with a negative quantity fails and creates no lot *)
C11_NegativeAddRejected ==
    [][(AddedStep /\ last'.quantity < 0)
       => (last'.outcome = "raise" /\ inventory' = inventory)]_vars

(* C12: a successful add_to_inventory appends exactly one lot, under an id *)
(* no lot had, holding what was passed, and leaves every existing lot and  *)
(* the sale history as they were.                                          *)
C12_AddNeverMerges ==
    [][(AddedStep /\ last'.outcome = "return")
       => (/\ Len(inventory') = Len(inventory) + 1
           /\ last'.lotid = Len(inventory')
           /\ last'.lotid \notin DOMAIN inventory
           /\ inventory'[last'.lotid].quantity = last'.quantity
           /\ inventory'[last'.lotid].medicine_id = last'.medicine_id
           /\ \A l \in DOMAIN inventory : inventory'[l] = inventory[l]
           /\ sales' = sales)
      ]_vars

(* a second lot of the same medicine was added after a sale of the first   *)
C12_Witness ==
    /\ last.op = "add_to_inventory"
    /\ last.outcome = "return"
    /\ Len(inventory) = 2
    /\ inventory[1].medicine_id = inventory[2].medicine_id
    /\ sales # <<>>

(* C13: get_inventory returns no lot whose quantity is 0: a lot sold down  *)
(* to 0 is still stored and is in no row.                                  *)
C13_NoEmptyLotListed ==
    last.op = "get_inventory"
        => /\ \A i \in DOMAIN last.rows : last.rows[i].quantity # 0
           /\ \A l \in DOMAIN inventory :
                 inventory[l].quantity = 0
                     => \A i \in DOMAIN last.rows : last.rows[i].id # l

C13_Witness ==
    /\ last.op = "get_inventory"
    /\ last.rows # <<>>
    /\ \E l \in DOMAIN inventory :
          /\ inventory[l].quantity = 0
          /\ created[l] > 0
          /\ inventory[l].medicine_id \in DOMAIN medicines

(* C14: every row of get_inventory is LOW when quantity <= threshold, else *)
(* NEAR_EXPIRY when expiry_date < today + 30, else OK.                     *)
C14_StatusClassification ==
    last.op = "get_inventory"
        => \A i \in DOMAIN last.rows :
              LET r == last.rows[i]
              IN /\ r.quantity = inventory[r.id].quantity
                 /\ r.expiry_date = inventory[r.id].expiry_date
                 /\ r.quantity <= last.threshold => r.status = "LOW"
                 /\ (r.quantity > last.threshold /\ r.expiry_date < last.day + 30)
                       => r.status = "NEAR_EXPIRY"
                 /\ (r.quantity > last.threshold /\ r.expiry_date >= last.day + 30)
                       => r.status = "OK"

(* one listing with a LOW lot that is also near expiry and a lot expiring  *)
(* in exactly 30 days that is OK                                           *)
C14_Witness ==
    /\ last.op = "get_inventory"
    /\ \E i \in DOMAIN last.rows :
          /\ last.rows[i].quantity <= last.threshold
          /\ last.rows[i].expiry_date < last.day + 30
          /\ last.rows[i].status = "LOW"
    /\ \E i \in DOMAIN last.rows :
          /\ last.rows[i].quantity > last.threshold
          /\ last.rows[i].expiry_date = last.day + 30
          /\ last.rows[i].status = "OK"

(* The lots a result of get_expiring_medicines has a row for.              *)
ListedIds(rows) == {rows[i].id : i \in DOMAIN rows}

(* C15: get_expiring_medicines(days) returns a lot exactly when its        *)
(* expiry_date is in [today, today + days].                                *)
C15_ClosedWindow ==
    last.op = "get_expiring_medicines"
        => \A l \in DOMAIN inventory :
              l \in ListedIds(last.rows)
                  <=> (/\ last.day <= inventory[l].expiry_date
                       /\ inventory[l].expiry_date <= last.day + last.days)

(* The same for the lots whose medicine is in the catalog.                 *)
ClosedWindowOfCatalogLots ==
    last.op = "get_expiring_medicines"
        => \A l \in DOMAIN inventory :
              inventory[l].medicine_id \in DOMAIN medicines
                  => (l \in ListedIds(last.rows)
                        <=> (/\ last.day <= inventory[l].expiry_date
                             /\ inventory[l].expiry_date <= last.day + last.days))

(* C16: get_expiring_medicines returns no lot whose quantity is 0.         *)
C16_ExpiringOnlyActive ==
    last.op = "get_expiring_medicines"
        => \A i \in DOMAIN last.rows : last.rows[i].quantity # 0

(* The first day of a report period, counted from the day of the call.     *)
Boundary(period, day) ==
    IF period = "daily" THEN day
    ELSE IF period = "weekly" THEN day - 7
    ELSE StartOfMonth(day)

(* C17: get_sales_report(period) has one line per sale record dated on or  *)
(* after the period's boundary, and no line dated before it.               *)
C17_ReportWindow ==
    (last.op = "get_sales_report" /\ last.period \in {"daily", "weekly", "monthly"})
        => /\ Len(last.rows) =
                 Cardinality({i \in DOMAIN sales :
                                 sales[i].sale_date >= Boundary(last.period, last.day)})
           /\ \A k \in DOMAIN last.rows :
                 last.rows[k].sale_date >= Boundary(last.period, last.day)

(* C18: get_sales_report with any other period returns the empty list and  *)
(* changes nothing.                                                        *)
C18_UnknownPeriodEmpty ==
    [][(/\ last'.op = "get_sales_report"
        /\ last'.period \notin {"daily", "weekly", "monthly"})
       => (/\ last'.rows = <<>>
           /\ UNCHANGED <<medicines, inventory, sales, disk>>)
      ]_vars

(* an unknown period was asked for on a day with a sale of a catalog       *)
(* medicine                                                                *)
C18_Witness ==
    /\ last.op = "get_sales_report"
    /\ last.period = "bogus"
    /\ \E i \in DOMAIN sales :
          /\ sales[i].sale_date = last.day
          /\ inventory[sales[i].inventory_id].medicine_id \in DOMAIN medicines

(* Lot 1 is the only lot: medicine 1 at cost 2 and price 5.                *)
ScenarioLot(quantity) ==
    /\ Len(inventory) = 1
    /\ inventory[1].medicine_id = 1
    /\ inventory[1].quantity = quantity
    /\ inventory[1].purchase_price = 2
    /\ inventory[1].selling_price = 5

(* C19: with medicine 1 in the catalog and no lots, adding 100 at cost 2   *)
(* and price 5 returns lot 1; selling 30 of it succeeds with total 150 and *)
(* leaves 70; selling 80 then fails with "Not enough stock" and leaves 70; *)
(* the daily report then is one row: quantity 30, total 150, profit 90.    *)
C19_ReferenceScenario ==
    [][/\ (AddedStep /\ inventory = <<>> /\ last'.outcome = "return")
            => last'.lotid = 1
       /\ (SoldStep /\ ScenarioLot(100) /\ sales = <<>>
           /\ last'.inventory_id = 1 /\ last'.quantity = 30)
            => (/\ last'.outcome = "return"
                /\ last'.ok
                /\ last'.total = 150
                /\ inventory'[1].quantity = 70
                /\ Len(sales') = 1)
       /\ (SoldStep /\ ScenarioLot(70) /\ Len(sales) = 1
           /\ last'.inventory_id = 1 /\ last'.quantity = 80)
            => (/\ last'.outcome = "return"
                /\ ~last'.ok
                /\ last'.msg = "Not enough stock"
                /\ inventory'[1].quantity = 70
                /\ sales' = sales)
       /\ (/\ last'.op = "get_sales_report"
           /\ last'.period = "daily"
           /\ ScenarioLot(70)
           /\ Len(sales) = 1
           /\ sales[1].quantity = 30)
            => (/\ Len(last'.rows) = 1
                /\ last'.rows[1].quantity = 30
                /\ last'.rows[1].total_amount = 150
                /\ last'.rows[1].profit = 90)
      ]_vars

(* the scenario has run to its report                                      *)
C19_Witness ==
    /\ last.op = "get_sales_report"
    /\ last.period = "daily"
    /\ ScenarioLot(70)
    /\ created = <<100>>
    /\ Len(sales) = 1
    /\ sales[1].quantity = 30
    /\ Len(last.rows) = 1
    /\ last.rows[1].profit = 90

(* C20: after the catalog is loaded no two medicine rows share a name.     *)
C20_NoDuplicateNames ==
    \A i, j \in DOMAIN medicines :
        i # j => medicines[i].name # medicines[j].name

(* C21: starting the program again when the medicine table holds rows      *)
(* leaves the medicine table as it was, in both engines.                   *)
C21_RestartKeepsCatalog ==
    [][(last'.op = "PharmacyInventorySystem" /\ medicines # <<>>)
       => medicines' = medicines]_vars

(* C22: every sale record is appended with total_amount = quantity *       *)
(* sale_price and with the selling_price its lot has at that moment as     *)
(* sale_price, and no step changes or removes a sale record.               *)
C22_SalePriceSnapshot ==
    [][/\ Len(sales') >= Len(sales)
       /\ \A i \in DOMAIN sales : sales'[i] = sales[i]
       /\ \A i \in DOMAIN sales' \ DOMAIN sales :
             /\ sales'[i].total_amount = sales'[i].quantity * sales'[i].sale_price
             /\ sales'[i].inventory_id \in DOMAIN inventory
             /\ sales'[i].sale_price = inventory[sales'[i].inventory_id].selling_price
      ]_vars

(* C23: in every interleaving, the row sell_medicine fetches after its     *)
(* 'SELECT quantity' and after its 'SELECT selling_price' is the row its   *)
(* own execute produced for the requested lot, not what another call's     *)
(* execute left in the shared cursor.                                      *)
C23_FetchOwnResult ==
    [][\A t \in Threads :
          (pc[t] \in {"sell_fetch_quantity", "sell_fetch_price"} /\ pc'[t] # pc[t])
              => FetchoneRow(cursor) = FetchoneRow(loc[t].executed)
      ]_vars

====
